---- MODULE Spec2Model ----
(***************************************************************************)
(* Model of I2cTestTool (src/I2cTestTool/main.cpp): the interactive prompt *)
(* loop ShowPrompt, the byte-buffer extractor operator>>, the delimiter    *)
(* matcher expect, and the stream inserters that render results.           *)
(*                                                                         *)
(* Text read from the line is a sequence of one-character strings; text    *)
(* written to wcout is a sequence of chunks, one for the prompt and one    *)
(* per line terminated by "\n".  The two streams carry their own numeric   *)
(* base (std::hex is sticky): linestream.base lives for one line, the base *)
(* of wcout lives for the whole session.                                   *)
(***************************************************************************)
EXTENDS Integers, Sequences, FiniteSets, TLC

(***************************************************************************)
(* Bounds of the explored inputs.                                          *)
(***************************************************************************)
\* largest number of tokens written between the braces of a buffer
MaxBuf == 3

(***************************************************************************)
(* Program constants.                                                      *)
(***************************************************************************)
\* main.cpp:109  if (byte > 0xff)
ByteMax == 255
\* main.cpp:107  unsigned int byte;  (width of unsigned int, in hex digits)
UIntHexDigits == 8

(***************************************************************************)
(* Characters and numerals.                                                *)
(***************************************************************************)
HexChars == <<"0", "1", "2", "3", "4", "5", "6", "7",
              "8", "9", "a", "b", "c", "d", "e", "f">>

\* value of a digit character, 16 when the character is no digit at all
DigitVal(c) ==
    IF \E i \in 1..16 : HexChars[i] = c
    THEN (CHOOSE i \in 1..16 : HexChars[i] = c) - 1
    ELSE 16

\* isspace(ch), main.cpp:88
isspace(c) == c = " "

RECURSIVE SkipWs(_)
\* the sentry of a formatted extraction skips leading white space
SkipWs(s) == IF s # <<>> /\ isspace(Head(s)) THEN SkipWs(Tail(s)) ELSE s

RECURSIVE DigitPrefixLen(_, _)
\* number of leading characters of s that are digits in the given base
DigitPrefixLen(s, base) ==
    IF s # <<>> /\ DigitVal(Head(s)) < base
    THEN 1 + DigitPrefixLen(Tail(s), base)
    ELSE 0

RECURSIVE StripZeros(_)
StripZeros(d) == IF Len(d) > 1 /\ Head(d) = "0" THEN StripZeros(Tail(d)) ELSE d

RECURSIVE DigitsValue(_, _, _)
DigitsValue(d, base, acc) ==
    IF d = <<>> THEN acc
    ELSE DigitsValue(Tail(d), base, acc * base + DigitVal(Head(d)))

\* 4294967295, the largest unsigned int, in decimal digits
UIntMaxDec == <<"4", "2", "9", "4", "9", "6", "7", "2", "9", "5">>

RECURSIVE LexGreater(_, _)
LexGreater(a, b) ==
    IF a = <<>> THEN FALSE
    ELSE IF DigitVal(Head(a)) # DigitVal(Head(b))
         THEN DigitVal(Head(a)) > DigitVal(Head(b))
         ELSE LexGreater(Tail(a), Tail(b))

\* the numeral does not fit an unsigned int (num_get then sets failbit)
Overflows(d, base) ==
    LET sig == StripZeros(d) IN
    IF base = 16 THEN Len(sig) > UIntHexDigits
    ELSE Len(sig) > 10 \/ (Len(sig) = 10 /\ LexGreater(sig, UIntMaxDec))

\* std::hex applied to a stream: the base stays until it is changed again
SetHex(is) == [is EXCEPT !.base = 16]

\* is >> unsigned int: skip white space, take the longest run of digits of
\* the stream's base; no digit, or a value that does not fit, sets failbit
\* (the digits of an overflowing numeral are consumed all the same).  Signs
\* and the 0x prefix are not among the characters of the explored lines.
ExtractUInt(is) ==
    IF is.fail THEN [is |-> is, val |-> 0]
    ELSE LET s == SkipWs(is.buf)
             k == DigitPrefixLen(s, is.base)
             d == SubSeq(s, 1, k)
             rest == SubSeq(s, k + 1, Len(s))
         IN  IF k = 0
             THEN [is |-> [is EXCEPT !.buf = s, !.fail = TRUE], val |-> 0]
             ELSE IF Overflows(d, is.base)
             THEN [is |-> [is EXCEPT !.buf = rest, !.fail = TRUE], val |-> 0]
             ELSE [is |-> [is EXCEPT !.buf = rest],
                   val |-> DigitsValue(d, is.base, 0)]

RECURSIVE expect(_, _)
\* main.cpp:83  skip white space up to the delimiter; anything else fails
expect(is, delim) ==
    IF is.buf = <<>> THEN [is EXCEPT !.fail = TRUE]
    ELSE LET ch == Head(is.buf)
             rest == [is EXCEPT !.buf = Tail(is.buf)]
         IN  IF ch = delim THEN rest
             ELSE IF ~isspace(ch) THEN [rest EXCEPT !.fail = TRUE]
             ELSE expect(rest, delim)

RECURSIVE ToText(_, _)
\* os << n in the given base: lowercase digits, no padding, no prefix
ToText(n, base) ==
    IF n < base THEN HexChars[n + 1]
    ELSE ToText(n \div base, base) \o HexChars[(n % base) + 1]

RECURSIVE ByteLoopFront(_, _)
\* ByteLoop with each byte inserted at the front of the vector
ByteLoopFront(is, bytes) ==
    LET r == ExtractUInt(SetHex(is)) IN
    IF r.is.fail THEN [is |-> r.is, bytes |-> bytes, oor |-> FALSE, val |-> 0]
    ELSE IF r.val > ByteMax
    THEN [is |-> [r.is EXCEPT !.fail = TRUE], bytes |-> bytes,
          oor |-> TRUE, val |-> r.val]
    ELSE ByteLoopFront(r.is, <<r.val % (ByteMax + 1)>> \o bytes)

RECURSIVE ByteLoop(_, _)
\* main.cpp:108-115  while (is >> std::hex >> byte) { range check; push_back }
ByteLoop(is, bytes) ==
    LET r == ExtractUInt(SetHex(is)) IN
    IF r.is.fail THEN [is |-> r.is, bytes |-> bytes, oor |-> FALSE, val |-> 0]
    ELSE IF r.val > ByteMax
    THEN [is |-> [r.is EXCEPT !.fail = TRUE], bytes |-> bytes,
          oor |-> TRUE, val |-> r.val]
    ELSE ByteLoop(r.is, Append(bytes, r.val % (ByteMax + 1)))

\* main.cpp:96  operator>> (std::wistream&, std::vector<BYTE>&)
\* msgs are the lines it writes to wcout; cbase is the base wcout is left in
ExtractBytes(is, cbase) ==
    LET e1 == expect(is, "{") IN
    IF e1.fail
    THEN [is |-> e1, bytes |-> <<>>, cbase |-> cbase,
          msgs |-> <<"Syntax error: expecting '{'">>]
    ELSE LET l == ByteLoop(e1, <<>>) IN
         IF l.oor
         THEN [is |-> l.is, bytes |-> l.bytes, cbase |-> 16,
               msgs |-> <<"Out of range [0, 0xff]: " \o ToText(l.val, 16)>>]
         ELSE IF l.bytes = <<>>
         THEN [is |-> [l.is EXCEPT !.fail = TRUE], bytes |-> <<>>,
               cbase |-> cbase,
               msgs |-> <<"Zero-length buffers are not allowed">>]
         ELSE LET e2 == expect([l.is EXCEPT !.fail = FALSE], "}") IN
              IF e2.fail
              THEN [is |-> e2, bytes |-> l.bytes, cbase |-> cbase,
                    msgs |-> <<"Syntax error: expecting '}'">>]
              ELSE [is |-> e2, bytes |-> l.bytes, cbase |-> cbase,
                    msgs |-> <<>>]

RECURSIVE BytesTextDec(_)
\* BytesText without std::hex
BytesTextDec(bytes) ==
    IF bytes = <<>> THEN ""
    ELSE " " \o ToText(Head(bytes), 10) \o BytesTextDec(Tail(bytes))

RECURSIVE BytesText(_)
\* main.cpp:131  for (auto byte : bytes) os << L" " << std::hex << byte;
BytesText(bytes) ==
    IF bytes = <<>> THEN ""
    ELSE " " \o ToText(Head(bytes), 16) \o BytesText(Tail(bytes))

\* main.cpp:138  operator<< (std::wostream&, I2cBusSpeed)
BusSpeedText(busSpeed) ==
    CASE busSpeed = "StandardMode" -> "StandardMode (100Khz)"
      [] busSpeed = "FastMode" -> "FastMode (400kHz)"
      [] OTHER -> "[Invalid bus speed]"

\* "Partial Transfer. Transferred " << result.BytesTransferred << " bytes\n"
PartialText(n, cbase) ==
    "Partial Transfer. Transferred " \o ToText(n, cbase) \o " bytes"

NackText == "Slave address was not acknowledged"

\* main.cpp:150  Help, one chunk per line
Help ==
    << "Commands:",
       " > write { 00 11 22 .. FF }         Write supplied buffer",
       " > read N                           Read N bytes",
       " > writeread { 00 11 .. FF } N      Write buffer, restart, read N bytes",
       " > info                             Display device information",
       " > help                             Display this help message",
       " > quit                             Quit",
       "" >>

(***************************************************************************)
(* Inputs: the lines typed at the prompt, the device behind the handle and *)
(* the results its transfer methods return.                                *)
(***************************************************************************)
\* tokens written between braces: 0a, ff, 100 (= 256), 100000000 (= 2^32)
\* and a word that is no numeral
ByteTokens ==
    { <<"0", "a">>, <<"f", "f">>, <<"1", "0", "0">>,
      <<"1", "0", "0", "0", "0", "0", "0", "0", "0">>, <<"z">> }

\* tokens written where a read length is expected
LengthTokens == { <<"0">>, <<"2">>, <<"4">>, <<"1", "1">>, <<"z">> }

TokenSeqs == UNION { [1..k -> ByteTokens] : k \in 0..MaxBuf }

RECURSIVE Join(_)
\* the tokens, each preceded by one blank
Join(ts) == IF ts = <<>> THEN <<>> ELSE <<" ">> \o Head(ts) \o Join(Tail(ts))

OpenTexts == { <<>>, <<" ", "{">> }
CloseTexts == { <<>>, <<" ", "}">>, <<"}">> }
LengthTexts == { <<>> } \cup { <<" ">> \o t : t \in LengthTokens }

BufferTexts ==
    { o \o Join(ts) \o c : o \in OpenTexts, ts \in TokenSeqs, c \in CloseTexts }

\* a line after std::getline and linestream >> command: the command word and
\* the characters left in linestream
Lines ==
    [command : {"write"}, args : BufferTexts]
    \cup [command : {"read"}, args : LengthTexts]
    \cup { [command |-> "writeread", args |-> b \o l] :
             b \in BufferTexts, l \in LengthTexts }
    \cup [command : {"q", "quit", "h", "help", "info", "", "Write", "dump"},
          args : { <<>> }]

\* device->ConnectionSettings and device->DeviceId of the opened handle
Devices ==
    [DeviceId : {"I2C1"}, SlaveAddress : {87},
     BusSpeed : {"StandardMode", "FastMode", "Other"}]

\* I2cTransferResult values a transfer of total bytes may return; "Unknown"
\* stands for a status outside the three enumerators
Results(total) ==
    { [Status |-> "FullTransfer", BytesTransferred |-> total] }
    \cup [Status : {"PartialTransfer"}, BytesTransferred : 0..(total - 1)]
    \cup [Status : {"SlaveAddressNotAcknowledged"},
          BytesTransferred : {0, total}]
    \cup { [Status |-> "Unknown", BytesTransferred |-> 0] }

\* the bytes the slave sends, by position: 11 22 33 ... or 0a ff 0a ff ...
DeviceStreams == {1, 2}
DeviceByte(s, i) ==
    IF s = 1 THEN (17 * i) % 256 ELSE IF i % 2 = 1 THEN 10 ELSE 255

\* ref new Array<BYTE>(n) is zero-filled; the transfer stores the bytes it
\* captured at the start of the array
FillBuf(s, captured, n) ==
    [i \in 1..n |-> IF i <= captured THEN DeviceByte(s, i) ELSE 0]

\* number of read-phase bytes captured by a transfer that wrote w bytes
Captured(res, w, n) ==
    CASE res.Status = "FullTransfer" -> n
      [] res.Status = "PartialTransfer" ->
            IF res.BytesTransferred > w THEN res.BytesTransferred - w ELSE 0
      [] OTHER -> 0

NoResult == [Status |-> "None", BytesTransferred |-> 0]
NoLine == [command |-> "", args |-> <<>>]

(***************************************************************************)
(* State.                                                                  *)
(***************************************************************************)
VARIABLES
    pc,        \* where ShowPrompt is: "prompt", "dispatch", "printed",
               \* "done" (returned) or "fault" (wexception thrown)
    device,    \* the I2cDevice handle passed to ShowPrompt
    coutBase,  \* basefield of std::wcout: 10 or 16
    line,      \* the line being processed
    calls,     \* bus calls issued for the line
    result,    \* I2cTransferResult of the call
    readBuf,   \* readBuf after the call
    out        \* chunks written to wcout since the prompt

vars == <<pc, device, coutBase, line, calls, result, readBuf, out>>

Init ==
    /\ pc = "prompt"
    /\ device \in Devices
    /\ coutBase = 10
    /\ line = NoLine
    /\ calls = <<>>
    /\ result = NoResult
    /\ readBuf = <<>>
    /\ out = <<>>

NewStream(l) == [buf |-> l.args, fail |-> FALSE, base |-> 10]

\* main.cpp:161-171  prompt, getline succeeds, linestream >> command
GetLine ==
    /\ pc = "prompt"
    /\ \E l \in Lines : line' = l
    /\ pc' = "dispatch"
    /\ out' = <<"> ">>
    /\ calls' = <<>>
    /\ result' = NoResult
    /\ readBuf' = <<>>
    /\ UNCHANGED <<device, coutBase>>

\* main.cpp:165-167  getline fails at end of input
EndOfInput ==
    /\ pc = "prompt"
    /\ pc' = "done"
    /\ out' = <<"> ">>
    /\ line' = NoLine
    /\ calls' = <<>>
    /\ result' = NoResult
    /\ readBuf' = <<>>
    /\ UNCHANGED <<device, coutBase>>

\* main.cpp:172-173
Quit ==
    /\ pc = "dispatch"
    /\ line.command \in {"q", "quit"}
    /\ pc' = "done"
    /\ UNCHANGED <<device, coutBase, line, calls, result, readBuf, out>>

\* main.cpp:174-175
HelpCmd ==
    /\ pc = "dispatch"
    /\ line.command \in {"h", "help"}
    /\ pc' = "printed"
    /\ out' = out \o Help
    /\ UNCHANGED <<device, coutBase, line, calls, result, readBuf>>

\* the switch on result.Status of the write command, main.cpp:186-198
WriteReport(res, cbase) ==
    CASE res.Status = "FullTransfer" -> <<>>
      [] res.Status = "PartialTransfer" ->
            <<PartialText(res.BytesTransferred, cbase)>>
      [] res.Status = "SlaveAddressNotAcknowledged" -> <<NackText>>
      [] OTHER -> <<>>

\* main.cpp:176-198
WriteCmd ==
    /\ pc = "dispatch"
    /\ line.command = "write"
    /\ LET p == ExtractBytes(NewStream(line), coutBase) IN
       IF p.is.fail
       THEN /\ out' = out \o p.msgs \o <<"Usage: write { 55 a0 ... ff }">>
            /\ coutBase' = p.cbase
            /\ pc' = "printed"
            /\ UNCHANGED <<calls, result, readBuf>>
       ELSE \E res \in Results(Len(p.bytes)) :
            /\ calls' = Append(calls, [op |-> "WritePartial",
                                       writeBuf |-> p.bytes, readLen |-> 0])
            /\ result' = res
            /\ out' = out \o WriteReport(res, p.cbase)
            /\ coutBase' = p.cbase
            /\ pc' = IF res.Status = "Unknown" THEN "fault" ELSE "printed"
            /\ UNCHANGED readBuf
    /\ UNCHANGED <<device, line>>

\* std::wcout << readBuf leaves wcout in hex when it wrote at least one byte
AfterBytes(buf, cbase) == IF buf = <<>> THEN cbase ELSE 16

\* the switch on result.Status of the read command, main.cpp:210-224
ReadReport(res, buf, cbase) ==
    CASE res.Status = "FullTransfer" -> <<BytesText(buf)>>
      [] res.Status = "PartialTransfer" ->
            <<PartialText(res.BytesTransferred, cbase), BytesText(buf)>>
      [] res.Status = "SlaveAddressNotAcknowledged" -> <<NackText>>
      [] OTHER -> <<>>

\* main.cpp:199-224
ReadCmd ==
    /\ pc = "dispatch"
    /\ line.command = "read"
    /\ LET r == ExtractUInt(NewStream(line)) IN
       IF r.is.fail
       THEN /\ out' = out \o <<"Expecting integer. e.g: read 4">>
            /\ pc' = "printed"
            /\ UNCHANGED <<coutBase, calls, result, readBuf>>
       ELSE \E res \in Results(r.val), s \in DeviceStreams :
            LET buf == FillBuf(s, Captured(res, 0, r.val), r.val) IN
            /\ calls' = Append(calls, [op |-> "ReadPartial",
                                       writeBuf |-> <<>>, readLen |-> r.val])
            /\ result' = res
            /\ readBuf' = buf
            /\ out' = out \o ReadReport(res, buf, coutBase)
            /\ coutBase' = IF res.Status \in {"FullTransfer", "PartialTransfer"}
                           THEN AfterBytes(buf, coutBase) ELSE coutBase
            /\ pc' = IF res.Status = "Unknown" THEN "fault" ELSE "printed"
    /\ UNCHANGED <<device, line>>

\* main.cpp:254  int bytesRead = result.BytesTransferred - int(writeBuf.size());
\* (32-bit wrap-around followed by the conversion to int gives the signed
\* difference for counts below 2^31)
BytesRead(res, writeBuf) == res.BytesTransferred - Len(writeBuf)

\* WriteReadReport with the read buffer shown after a not-acknowledged address
WriteReadReportNackShowsBuf(res, writeBuf, buf, cbase) ==
    CASE res.Status = "FullTransfer" -> <<BytesText(buf)>>
      [] res.Status = "PartialTransfer" ->
            <<PartialText(res.BytesTransferred, cbase)>>
            \o (IF BytesRead(res, writeBuf) > 0 THEN <<BytesText(buf)>> ELSE <<>>)
      [] res.Status = "SlaveAddressNotAcknowledged" -> <<NackText, BytesText(buf)>>
      [] OTHER -> <<>>

\* the switch on result.Status of the writeread command, main.cpp:246-265
WriteReadReport(res, writeBuf, buf, cbase) ==
    CASE res.Status = "FullTransfer" -> <<BytesText(buf)>>
      [] res.Status = "PartialTransfer" ->
            <<PartialText(res.BytesTransferred, cbase)>>
            \o (IF BytesRead(res, writeBuf) > 0 THEN <<BytesText(buf)>> ELSE <<>>)
      [] res.Status = "SlaveAddressNotAcknowledged" -> <<NackText>>
      [] OTHER -> <<>>

\* main.cpp:225-265
WriteReadCmd ==
    /\ pc = "dispatch"
    /\ line.command = "writeread"
    /\ LET p == ExtractBytes(NewStream(line), coutBase)
           r == ExtractUInt(p.is)
           usage == "Usage: writeread { 55 a0 ... ff } 4"
       IN
       IF p.is.fail
       THEN /\ out' = out \o p.msgs \o <<usage>>
            /\ coutBase' = p.cbase
            /\ pc' = "printed"
            /\ UNCHANGED <<calls, result, readBuf>>
       ELSE IF r.is.fail
       THEN /\ out' = out \o <<"Syntax error: expecting integer", usage>>
            /\ coutBase' = p.cbase
            /\ pc' = "printed"
            /\ UNCHANGED <<calls, result, readBuf>>
       ELSE \E res \in Results(Len(p.bytes) + r.val), s \in DeviceStreams :
            LET buf == FillBuf(s, Captured(res, Len(p.bytes), r.val), r.val) IN
            /\ calls' = Append(calls, [op |-> "WriteReadPartial",
                                       writeBuf |-> p.bytes, readLen |-> r.val])
            /\ result' = res
            /\ readBuf' = buf
            /\ out' = out \o WriteReadReport(res, p.bytes, buf, p.cbase)
            /\ coutBase' =
                 IF \/ res.Status = "FullTransfer"
                    \/ /\ res.Status = "PartialTransfer"
                       /\ BytesRead(res, p.bytes) > 0
                 THEN AfterBytes(buf, p.cbase) ELSE p.cbase
            /\ pc' = IF res.Status = "Unknown" THEN "fault" ELSE "printed"
    /\ UNCHANGED <<device, line>>

\* main.cpp:266-272
InfoCmd ==
    /\ pc = "dispatch"
    /\ line.command = "info"
    /\ out' = out \o
         << "       DeviceId: " \o device.DeviceId,
            "  Slave address: 0x" \o ToText(device.SlaveAddress, 16),
            "      Bus Speed: " \o BusSpeedText(device.BusSpeed) >>
    /\ coutBase' = 16
    /\ pc' = "printed"
    /\ UNCHANGED <<device, line, calls, result, readBuf>>

\* main.cpp:273-274
EmptyCmd ==
    /\ pc = "dispatch"
    /\ line.command = ""
    /\ pc' = "printed"
    /\ UNCHANGED <<device, coutBase, line, calls, result, readBuf, out>>

Commands == {"q", "quit", "h", "help", "write", "read", "writeread", "info", ""}

\* main.cpp:275-278
UnrecognizedCmd ==
    /\ pc = "dispatch"
    /\ line.command \notin Commands
    /\ out' = out \o << "Unrecognized command: " \o line.command
                        \o ". Type 'help' for command usage." >>
    /\ pc' = "printed"
    /\ UNCHANGED <<device, coutBase, line, calls, result, readBuf>>

\* main.cpp:161  end of the loop body, back to while (std::wcin); the
\* locals of the iteration are gone, the state of wcout is not
LoopBack ==
    /\ pc = "printed"
    /\ pc' = "prompt"
    /\ line' = NoLine
    /\ calls' = <<>>
    /\ result' = NoResult
    /\ readBuf' = <<>>
    /\ out' = <<>>
    /\ UNCHANGED <<device, coutBase>>

Next ==
    \/ GetLine
    \/ EndOfInput
    \/ Quit
    \/ HelpCmd
    \/ WriteCmd
    \/ ReadCmd
    \/ WriteReadCmd
    \/ InfoCmd
    \/ EmptyCmd
    \/ UnrecognizedCmd
    \/ LoopBack

Spec == Init /\ [][Next]_vars

(***************************************************************************)
(* Vocabulary of the properties: how a line reads as text, independent of  *)
(* the extractors above.                                                   *)
(***************************************************************************)
RECURSIVE UpTo(_, _)
\* the characters of s before the first c (all of s when there is none)
UpTo(s, c) ==
    IF s = <<>> \/ Head(s) = c THEN <<>> ELSE <<Head(s)>> \o UpTo(Tail(s), c)

RECURSIVE After(_, _)
\* the characters of s after the first c (none when there is no c)
After(s, c) ==
    IF s = <<>> THEN <<>> ELSE IF Head(s) = c THEN Tail(s) ELSE After(Tail(s), c)

RECURSIVE WordsFrom(_, _)
WordsFrom(s, cur) ==
    IF s = <<>> THEN (IF cur = <<>> THEN <<>> ELSE <<cur>>)
    ELSE IF Head(s) = " "
         THEN (IF cur = <<>> THEN <<>> ELSE <<cur>>) \o WordsFrom(Tail(s), <<>>)
         ELSE WordsFrom(Tail(s), Append(cur, Head(s)))

\* the blank-separated words of s
Words(s) == WordsFrom(s, <<>>)

Done == pc \in {"printed", "fault", "done"} /\ line # NoLine
Called == Done /\ calls # <<>>

IsHexWord(w) == \A i \in 1..Len(w) : DigitVal(w[i]) < 16
IsDecWord(w) == \A i \in 1..Len(w) : DigitVal(w[i]) < 10
\* a hexadecimal numeral of at most two significant digits is at most 0xFF
ValidByteWord(w) == IsHexWord(w) /\ Len(StripZeros(w)) <= 2
OutOfRangeWord(w) == IsHexWord(w) /\ Len(StripZeros(w)) > 2

\* the line opens a brace
Opens(args) == SkipWs(args) # <<>> /\ Head(SkipWs(args)) = "{"
\* the words between the opening brace and the closing one (or the end)
BufferWords(args) == Words(UpTo(Tail(SkipWs(args)), "}"))
Closes(args) == \E i \in 1..Len(args) : args[i] = "}"
\* the text that follows the closing brace
LengthText(args) == After(args, "}")

\* { t1 .. tk } with k >= 1 and every token a hexadecimal value <= 0xFF
WellFormedBuffer(args) ==
    /\ Opens(args)
    /\ Closes(args)
    /\ BufferWords(args) # <<>>
    /\ \A i \in 1..Len(BufferWords(args)) : ValidByteWord(BufferWords(args)[i])

BufferValues(args) ==
    [i \in 1..Len(BufferWords(args)) |-> DigitsValue(BufferWords(args)[i], 16, 0)]

\* the text starts with a decimal numeral
WellFormedLength(text) == Words(text) # <<>> /\ IsDecWord(Words(text)[1])

WellFormed(l) ==
    CASE l.command = "write" -> WellFormedBuffer(l.args)
      [] l.command = "read" -> WellFormedLength(l.args)
      [] l.command = "writeread" ->
            WellFormedBuffer(l.args) /\ WellFormedLength(LengthText(l.args))
      [] OTHER -> FALSE

\* the number of bytes the read command requests for the text
ReadLengthOf(text) == ExtractUInt([buf |-> text, fail |-> FALSE, base |-> 10]).val

(***************************************************************************)
(* C1: a writeread that returns PartialTransfer(n) after a write buffer of *)
(* W bytes prints, after the partial-transfer line, a byte line of exactly *)
(* n - W bytes from the start of the read buffer when n - W > 0, and no    *)
(* byte line when n - W <= 0.                                              *)
(***************************************************************************)
C1_WriteReadPartialShowsReadBytes ==
    (/\ pc = "printed"
     /\ line.command = "writeread"
     /\ result.Status = "PartialTransfer")
    => LET n == result.BytesTransferred
           W == Len(calls[1].writeBuf)
       IN  IF n - W > 0
           THEN Len(out) = 3 /\ out[3] = BytesText(SubSeq(readBuf, 1, n - W))
           ELSE Len(out) = 2

(***************************************************************************)
(* C2: a write or writeread whose buffer holds a token of hexadecimal      *)
(* value above 0xFF, at any position and however large, is abandoned: no   *)
(* bus call is issued for the line.                                        *)
(***************************************************************************)
C2_OutOfRangeTokenAbandonsCommand ==
    (/\ Done
     /\ line.command \in {"write", "writeread"}
     /\ Opens(line.args)
     /\ \E i \in 1..Len(BufferWords(line.args)) :
            OutOfRangeWord(BufferWords(line.args)[i]))
    => calls = <<>>

(***************************************************************************)
(* C3: a read of N bytes that returns PartialTransfer(n) prints the        *)
(* partial-transfer line followed by a byte line of the n captured bytes   *)
(* only.                                                                   *)
(***************************************************************************)
C3_ReadPartialShowsCapturedBytes ==
    (/\ pc = "printed"
     /\ line.command = "read"
     /\ result.Status = "PartialTransfer")
    => /\ Len(out) = 3
       /\ out[3] = BytesText(SubSeq(readBuf, 1, result.BytesTransferred))

(***************************************************************************)
(* C4: a line issues exactly one bus call when it is a well-formed write,  *)
(* read or writeread, and none otherwise; after a line that issued no call *)
(* the loop is still running (or was left by quit).                        *)
(***************************************************************************)
C4_OneCallPerWellFormedLine ==
    Done =>
       /\ Len(calls) = (IF WellFormed(line) THEN 1 ELSE 0)
       /\ (calls = <<>> /\ line.command \notin {"q", "quit"}) => pc = "printed"

(***************************************************************************)
(* C5: every read-phase request handed to the bus has a length above 0.    *)
(***************************************************************************)
C5_ReadLengthPositive ==
    (Called /\ calls[1].op \in {"ReadPartial", "WriteReadPartial"})
    => calls[1].readLen > 0

(***************************************************************************)
(* C10: the same length text requests the same number of bytes in read and *)
(* in writeread.                                                           *)
(***************************************************************************)
C10_SameLengthBase ==
    (Called /\ line.command = "writeread")
    => calls[1].readLen = ReadLengthOf(LengthText(line.args))

(***************************************************************************)
(* C6 (as stated): after FullTransfer with a non-empty read buffer the     *)
(* byte line is two-digit lowercase hexadecimal values separated by single *)
(* blanks, nothing before the first byte: [0x0a, 0xff] gives "0a ff".      *)
(***************************************************************************)
TwoDigits(b) == HexChars[(b \div 16) + 1] \o HexChars[(b % 16) + 1]

RECURSIVE TwoDigitText(_)
TwoDigitText(bytes) ==
    IF Len(bytes) = 1 THEN TwoDigits(bytes[1])
    ELSE TwoDigits(Head(bytes)) \o " " \o TwoDigitText(Tail(bytes))

FullRead ==
    /\ pc = "printed"
    /\ line.command \in {"read", "writeread"}
    /\ result.Status = "FullTransfer"
    /\ readBuf # <<>>

C6_TwoDigitByteLine == FullRead => out = <<"> ", TwoDigitText(readBuf)>>

(***************************************************************************)
(* C6 (amended): after FullTransfer with a non-empty read buffer the byte  *)
(* line is, for each byte in order, one blank followed by the byte in      *)
(* lowercase hexadecimal without padding and without prefix: [0x0a, 0xff]  *)
(* gives " a ff".                                                          *)
(***************************************************************************)
PlainHex(b) ==
    IF b < 16 THEN HexChars[b + 1]
    ELSE HexChars[(b \div 16) + 1] \o HexChars[(b % 16) + 1]

RECURSIVE BlankHexText(_)
BlankHexText(bytes) ==
    IF bytes = <<>> THEN ""
    ELSE " " \o PlainHex(Head(bytes)) \o BlankHexText(Tail(bytes))

C6_BlankPrefixedPlainHex ==
    /\ FullRead => out = <<"> ", BlankHexText(readBuf)>>
    /\ (FullRead /\ readBuf = <<10, 255>>) => out[2] = " a ff"

C6_Witness ==
    /\ FullRead
    /\ line.command = "read"
    /\ readBuf = <<10, 255>>
    /\ out = <<"> ", " a ff">>

(***************************************************************************)
(* C7: the output of a command depends only on its line and on the result  *)
(* the device returns, not on earlier commands: the count of a partial     *)
(* transfer is rendered as it is for the first command of a session.       *)
(***************************************************************************)
C7_CountRenderingIndependentOfHistory ==
    (pc = "printed" /\ result.Status = "PartialTransfer")
    => out[2] = PartialText(result.BytesTransferred, 10)

(***************************************************************************)
(* C8: whatever the command and whatever byte count the result carries, a  *)
(* SlaveAddressNotAcknowledged result prints exactly the fixed line and no *)
(* byte of the read buffer.                                                *)
(***************************************************************************)
C8_NackPrintsOnlyFixedLine ==
    (Done /\ result.Status = "SlaveAddressNotAcknowledged")
    => /\ pc = "printed"
       /\ out = <<"> ", "Slave address was not acknowledged">>

C8_Witness ==
    /\ pc = "printed"
    /\ line.command = "writeread"
    /\ result.Status = "SlaveAddressNotAcknowledged"
    /\ result.BytesTransferred > Len(calls[1].writeBuf)
    /\ Len(readBuf) > 0
    /\ out = <<"> ", "Slave address was not acknowledged">>

(***************************************************************************)
(* C9: for a brace-delimited sequence of 1..MaxBuf valid hexadecimal       *)
(* tokens, the buffer handed to WritePartial or WriteReadPartial has the   *)
(* length of the token sequence and holds the token values in order; a     *)
(* write of such a sequence does hand it to the bus.                       *)
(***************************************************************************)
C9_BufferEqualsTokens ==
    (/\ Done
     /\ line.command \in {"write", "writeread"}
     /\ WellFormedBuffer(line.args))
    => /\ line.command = "write" => calls # <<>>
       /\ calls # <<>> =>
            /\ calls[1].op = (IF line.command = "write"
                              THEN "WritePartial" ELSE "WriteReadPartial")
            /\ calls[1].writeBuf = BufferValues(line.args)

C9_Witness ==
    /\ Called
    /\ line.command = "write"
    /\ WellFormedBuffer(line.args)
    /\ Len(BufferWords(line.args)) = MaxBuf
    /\ calls[1].writeBuf[1] = 10
    /\ calls[1].writeBuf[2] = 255

\* Apart from the lines that hold an out-of-range token, a line issues one
\* bus call exactly when it is well formed.
OneCallApartFromOutOfRange ==
    (Done /\ ~(Opens(line.args) /\ \E i \in 1..Len(BufferWords(line.args)) :
            OutOfRangeWord(BufferWords(line.args)[i])))
       => Len(calls) = (IF WellFormed(line) THEN 1 ELSE 0)

====
